---- MODULE Spec2Model ----
(***************************************************************************)
(* Time-interval accounting engine of the attendance application:          *)
(* duration calculators (utils/calculations.ts) and the wage tier engine   *)
(* (utils/wageCalculator.ts).                                              *)
(*                                                                         *)
(* An instant is a number of ticks since 00:00 of the first day of the     *)
(* modelled calendar (local time, no daylight saving).  A tick is          *)
(* 1/TicksPerMinute of a minute, so sub-minute instants exist.             *)
(***************************************************************************)
EXTENDS Integers, Sequences, FiniteSets, TLC

\* ---------------------------------------------------------------- bounds
\* Resolution of the clock: ticks per minute (3 = 20-second ticks).
TicksPerMinute == 3
\* Longest record list handed to the validator and to the hook.
MaxRecords == 3
\* Every minute count up to this one is handed to the formatter.
MaxMinutes == 130
MaxCalls == 3

\* ------------------------------------------------------------- constants
MINUTES_IN_HOUR == 60
MAX_MONTHLY_MINUTES == 160 * 60
NORMAL == 1500
NIGHT == 1875
CROSS_DAY == 2000

\* null of `Date | null` / `string | null`; every instant is >= 0.
NULL == -1

TicksPerHour == TicksPerMinute * MINUTES_IN_HOUR
TicksPerDay == 24 * TicksPerHour

Min(a, b) == IF a <= b THEN a ELSE b
Max(a, b) == IF a >= b THEN a ELSE b

\* ------------------------------------------------------ calendar (Date)
\* Lengths of the modelled months: December, January, February, March,
\* April, May.
MonthLengths == <<31, 31, 28, 31, 30, 31>>

RECURSIVE MonthStartDay(_)
\* Index (0-based) of the first day of month m; m may exceed the table by
\* one (the day after the last modelled month).
MonthStartDay(m) == IF m = 1 THEN 0 ELSE MonthStartDay(m - 1) + MonthLengths[m - 1]

DayIndex(t) == t \div TicksPerDay
TimeOfDay(t) == t % TicksPerDay

\* Date.prototype.getMonth, as an index into MonthLengths.
getMonth(t) ==
  CHOOSE m \in 1..Len(MonthLengths) :
    MonthStartDay(m) <= DayIndex(t) /\ DayIndex(t) < MonthStartDay(m + 1)

\* Date.prototype.getDate: day of the month, 1-based.
getDate(t) == DayIndex(t) - MonthStartDay(getMonth(t)) + 1

\* Date.prototype.getHours.
getHours(t) == TimeOfDay(t) \div TicksPerHour

\* Date.prototype.setDate(d): day d of the month of t, overflowing into the
\* following months when d exceeds the month's length; time of day is kept.
setDate(t, d) == (MonthStartDay(getMonth(t)) + d - 1) * TicksPerDay + TimeOfDay(t)

\* Date.prototype.setHours(h, 0, 0, 0).
setHours(t, h) == DayIndex(t) * TicksPerDay + h * TicksPerHour

\* The instant month m, day d, h:mi plus s ticks.
At(m, d, h, mi, s) ==
  (MonthStartDay(m) + d - 1) * TicksPerDay + h * TicksPerHour + mi * TicksPerMinute + s

\* ------------------------------------------------------------------ state
VARIABLES
  clockIn, clockOut,          \* record.originalClockIn / originalClockOut
  breakStart, breakEnd,       \* record.breakStart / breakEnd (NULL = null)
  periodStart, periodEnd,     \* reporting period handed to the period calculator
  pc,                         \* position inside calculateWageForTimeRange
  currentTime, totalWage,     \* locals of calculateWageForTimeRange;
  adjustedEndTime,            \*   totalWage is kept in yen * ticks / hour,
  adjustedBreakStart,         \*   i.e. totalWage / TicksPerHour is the
  adjustedBreakEnd,           \*   JavaScript number
  slots,                      \* the slots priced so far, in order
  finalWage,                  \* return value of calculateWageForTimeRange
  workTime, periodTime,       \* return values of calculateWorkTime,
  actualTime,                 \*   calculateWorkTimeForPeriod, calculateActualWorkTime
  nextPeriodTime,             \* calculateWorkTimeForPeriod for the following month
  attendance,                 \* rows of the attendance table for the staff member
  valid,                      \* return value of validateRecords
  now,                        \* new Date() when the hook runs
  viewYear, viewMonth,        \* useState(now.getFullYear()), useState(now.getMonth())
  records,                    \* the hook's records state (formattedRecords)
  monthlyTotal,               \* the hook's monthlyTotal state
  error,                      \* the hook's error state
  formattedMonthlyTotal,      \* the total the page displays
  minutesToFormat,            \* argument of formatMinutesToTime
  formattedTime,              \* return value of formatMinutesToTime
  parsedMinutes,              \* getMinutesFromHHMM of that string
  previousWage,               \* finalWage of the first of two calls
  repeatedPeriodTime,         \* calculateWorkTimeForPeriod called a second time
  previousBreakStart,         \* the break handed to the first of two calls
  previousBreakEnd,
  sessions,                   \* each session's position in the handler it runs
  hooks,                      \* each session's hook state
  nextId                      \* the id the table gives to the next row

inputs == <<clockIn, clockOut, breakStart, breakEnd, periodStart, periodEnd>>
wageVars == <<pc, currentTime, totalWage, adjustedEndTime, adjustedBreakStart,
              adjustedBreakEnd, slots, finalWage>>
durationVars == <<workTime, periodTime, actualTime, nextPeriodTime>>
validateVars == <<attendance, valid>>
hookVars == <<now, viewYear, viewMonth, records, monthlyTotal, error,
              formattedMonthlyTotal>>
formatVars == <<minutesToFormat, formattedTime, parsedMinutes>>
repeatVars == <<previousWage, repeatedPeriodTime, previousBreakStart,
               previousBreakEnd>>
storeVars == <<sessions, hooks, nextId>>
vars == <<inputs, wageVars, durationVars, validateVars, hookVars, formatVars,
         repeatVars, storeVars>>

\* A result that has not been computed yet (no calculator returns the empty
\* string).
Unset == <<>>

\* No session is open while the calculators, the validator or a single
\* page are looked at.
StoreIdle == sessions = <<>> /\ hooks = <<>> /\ nextId = 1

\* The variables of the record validator, the hook and the formatter while
\* the calculators run on a single record.
RecordsIdle ==
  /\ attendance = <<>> /\ valid = FALSE
  /\ now = NULL /\ viewYear = NULL /\ viewMonth = NULL
  /\ records = <<>> /\ monthlyTotal = NULL /\ error = NULL
  /\ formattedMonthlyTotal = Unset
  /\ StoreIdle

FormatIdle == minutesToFormat = NULL /\ formattedTime = Unset /\ parsedMinutes = NULL

\* -------------------------------------------------------- wage tier engine
determineHourlyWage(time) ==
  LET hour == getHours(time) IN
  IF hour >= 0 /\ hour < 3 THEN CROSS_DAY
  ELSE IF hour >= 22 THEN NIGHT
  ELSE NORMAL

\* The start of the current hour: a boundary that is not after the time.
getNextRateChangeTimeSameHour(time) == setHours(time, getHours(time))

\* switch (true): the first case whose condition holds is taken.
getNextRateChangeTime(time) ==
  LET hour == getHours(time) IN
  IF hour < 22 THEN setHours(time, 22)
  ELSE IF hour >= 22 THEN setHours(setDate(time, getDate(time) + 1), 0)
  ELSE IF hour >= 0 /\ hour < 3 THEN setHours(time, 3)
  ELSE setHours(time, hour + 1)

\* The hour-of-day heuristic of the earlier revision of this function: the end
\* is put on the start's day, or on the next day when its hour is earlier.
adjustEndTimeByHours(startTime, endTime) ==
  LET isEndMidnight == TimeOfDay(endTime) \div TicksPerMinute = 0
      isStartBeforeMidnight == getHours(startTime) >= 22
  IN IF isEndMidnight /\ isStartBeforeMidnight
     THEN setDate(endTime, getDate(startTime) + 1)
     ELSE IF getHours(endTime) < getHours(startTime) /\ ~isEndMidnight
     THEN setDate(endTime, getDate(startTime) + 1)
     ELSE setDate(endTime, getDate(startTime))

\* The end advanced by as many days as it takes to pass the start.
adjustEndTimeUntilAfter(startTime, endTime) ==
  IF endTime <= startTime
  THEN endTime + ((startTime - endTime) \div TicksPerDay + 1) * TicksPerDay
  ELSE endTime

adjustEndTimeForDateCrossing(startTime, endTime) ==
  IF endTime <= startTime THEN setDate(endTime, getDate(endTime) + 1) ELSE endTime

\* Lines 96-105: the break start moved onto the day of the shift's start.
adjustBreakStart(startTime, bs) ==
  LET onStartDay == setDate(bs, getDate(startTime)) IN
  IF getHours(onStartDay) < getHours(startTime)
  THEN setDate(onStartDay, getDate(startTime) + 1)
  ELSE onStartDay

\* Lines 115-125: hours worked in the slot, in ticks; a slot shorter than one
\* minute is floored to whole minutes.
workTimeInSlot(from, to) ==
  IF (to - from) * MINUTES_IN_HOUR < TicksPerHour
  THEN ((to - from) \div TicksPerMinute) * TicksPerMinute
  ELSE to - from

\* Lines 128-148: break time inside the slot, in ticks.
breakTimeInSlot(from, to, bs, be) ==
  IF bs = NULL \/ be = NULL THEN 0
  ELSE IF ~(be <= from \/ bs >= to)
       THEN Min(to, be) - Max(from, bs)
       ELSE 0

\* Math.round of total / TicksPerHour: nearest integer, halves towards +infinity.
MathRound(total) == (2 * total + TicksPerHour) \div (2 * TicksPerHour)

\* Rounding without the clamp of a negative total.
roundWithoutClamp(total) == MathRound(total)

\* Lines 159-166.
roundAndClamp(total) ==
  LET rounded == MathRound(total) IN
  IF rounded < 0 THEN 0 ELSE rounded

\* new Date(date) shares the argument's object.
newDateAliased(object) == object

\* new Date(date): the object that setDate / setHours on the result write
\* to.  It is a fresh copy, never the argument's object.
newDateFrom(object) == "copy"

\* The caller's Date object after a callee has mutated its own reference to
\* it: untouched when that reference is a copy.
AfterMutation(object, reference, before, after) ==
  IF reference = object THEN after ELSE before

\* Lines 86-105: entry of calculateWageForTimeRange.
WageBegin ==
  /\ pc = "call"
  /\ totalWage' = 0
  /\ currentTime' = clockIn
  /\ adjustedEndTime' = adjustEndTimeForDateCrossing(clockIn, clockOut)
  /\ IF breakStart # NULL /\ breakEnd # NULL
     THEN /\ adjustedBreakStart' = adjustBreakStart(clockIn, breakStart)
          /\ adjustedBreakEnd' = adjustEndTimeForDateCrossing(breakStart, breakEnd)
     ELSE /\ adjustedBreakStart' = NULL
          /\ adjustedBreakEnd' = NULL
  /\ slots' = <<>>
  /\ pc' = "loop"
  /\ clockOut' = AfterMutation("endTime", newDateFrom("endTime"), clockOut,
                               adjustEndTimeForDateCrossing(clockIn, clockOut))
  /\ IF breakStart # NULL /\ breakEnd # NULL
     THEN /\ breakStart' = AfterMutation("breakStart", newDateFrom("breakStart"),
                                         breakStart,
                                         adjustBreakStart(clockIn, breakStart))
          /\ breakEnd' = AfterMutation("breakEnd", newDateFrom("breakEnd"), breakEnd,
                                       adjustEndTimeForDateCrossing(breakStart, breakEnd))
     ELSE UNCHANGED <<breakStart, breakEnd>>
  /\ UNCHANGED <<storeVars, validateVars, hookVars, formatVars, repeatVars, clockIn, periodStart,
                 periodEnd, finalWage, durationVars>>

\* Lines 107-157: one iteration of the while loop.
WageSlot ==
  /\ pc = "loop"
  /\ currentTime < adjustedEndTime
  /\ LET nextChangeTime == getNextRateChangeTime(currentTime)
         slotEndTime == Min(nextChangeTime, adjustedEndTime)
         worked == workTimeInSlot(currentTime, slotEndTime)
                   - breakTimeInSlot(currentTime, slotEndTime,
                                     adjustedBreakStart, adjustedBreakEnd)
         hourlyWage == determineHourlyWage(currentTime)
     IN /\ totalWage' = totalWage + worked * hourlyWage
        /\ slots' = Append(slots, [from |-> currentTime, to |-> slotEndTime,
                                   next |-> nextChangeTime,
                                   pause |-> breakTimeInSlot(currentTime, slotEndTime,
                                                             adjustedBreakStart,
                                                             adjustedBreakEnd),
                                   work |-> worked, rate |-> hourlyWage])
        /\ currentTime' = slotEndTime
        \* nextTime copies currentTime, which copies startTime until the first
        \* slot has been priced
        /\ clockIn' = IF slots = <<>>
                      THEN AfterMutation("startTime",
                                         newDateFrom(newDateFrom("startTime")),
                                         clockIn, nextChangeTime)
                      ELSE clockIn
  /\ UNCHANGED <<storeVars, validateVars, hookVars, formatVars, repeatVars, clockOut, breakStart,
                 breakEnd, periodStart, periodEnd, pc, adjustedEndTime,
                 adjustedBreakStart, adjustedBreakEnd, finalWage, durationVars>>

\* Lines 159-166: loop exit, rounding and clamp.
WageFinish ==
  /\ pc = "loop"
  /\ ~(currentTime < adjustedEndTime)
  /\ finalWage' = roundAndClamp(totalWage)
  /\ pc' = "done"
  /\ UNCHANGED <<storeVars, validateVars, hookVars, formatVars, repeatVars, inputs, currentTime,
                 totalWage, adjustedEndTime, adjustedBreakStart, adjustedBreakEnd,
                 slots, durationVars>>

\* The caller calls calculateWageForTimeRange again with the same Date
\* objects.
WageAgain ==
  /\ pc = "done"
  /\ previousWage = NULL
  /\ previousWage' = finalWage
  /\ pc' = "call"
  /\ UNCHANGED <<storeVars, validateVars, hookVars, formatVars, repeatedPeriodTime,
                 previousBreakStart, previousBreakEnd, inputs,
                 currentTime, totalWage, adjustedEndTime, adjustedBreakStart,
                 adjustedBreakEnd, slots, finalWage, durationVars>>

\* The caller calls calculateWageForTimeRange again for the same shift,
\* this time without the break.
WageWithoutBreak ==
  /\ pc = "done"
  /\ previousWage = NULL
  /\ breakStart # NULL \/ breakEnd # NULL
  /\ previousWage' = finalWage
  /\ previousBreakStart' = breakStart
  /\ previousBreakEnd' = breakEnd
  /\ breakStart' = NULL
  /\ breakEnd' = NULL
  /\ pc' = "call"
  /\ UNCHANGED <<storeVars, validateVars, hookVars, formatVars, repeatedPeriodTime, clockIn,
                 clockOut, periodStart, periodEnd, currentTime, totalWage,
                 adjustedEndTime, adjustedBreakStart, adjustedBreakEnd, slots,
                 finalWage, durationVars>>

\* Shifts and breaks the wage engine is run on (month 2 is January).
WageStarts ==
  { At(2, 15, 1, 0, 0), At(2, 15, 9, 0, 0), At(2, 15, 21, 0, 0), At(2, 15, 21, 45, 0),
    At(2, 15, 21, 59, TicksPerMinute - 1), At(2, 15, 23, 45, 0), At(2, 31, 22, 0, 0) }

WageEnds ==
  { At(2, 13, 9, 0, 0), At(2, 15, 2, 0, 0), At(2, 15, 5, 0, 0), At(2, 15, 9, 0, 0),
    At(2, 15, 18, 0, 0), At(2, 15, 22, 0, 0), At(2, 15, 22, 15, 0), At(2, 16, 0, 15, 0),
    At(2, 16, 2, 0, 0), At(2, 17, 2, 0, 0), At(3, 1, 2, 0, 0) }

BreakInstants ==
  { At(2, 14, 12, 0, 0), At(2, 15, 0, 0, 0), At(2, 15, 3, 30, 0), At(2, 15, 4, 0, 0),
    At(2, 15, 10, 0, 0), At(2, 15, 12, 0, 0), At(2, 15, 21, 30, 0), At(2, 15, 21, 45, 0),
    At(2, 15, 22, 15, 0), At(2, 15, 23, 0, 0), At(2, 16, 0, 30, 0), At(2, 16, 1, 0, 0),
    At(3, 1, 0, 30, 0), At(3, 1, 1, 0, 0) }

InitWage ==
  /\ clockIn \in WageStarts
  /\ clockOut \in WageEnds
  /\ breakStart \in BreakInstants \cup {NULL}
  /\ breakEnd \in BreakInstants \cup {NULL}
  /\ periodStart = NULL /\ periodEnd = NULL
  /\ pc = "call"
  /\ currentTime = NULL /\ totalWage = 0
  /\ adjustedEndTime = NULL /\ adjustedBreakStart = NULL /\ adjustedBreakEnd = NULL
  /\ slots = <<>>
  /\ finalWage = NULL
  /\ workTime = Unset /\ periodTime = Unset /\ actualTime = Unset
  /\ nextPeriodTime = Unset
  /\ previousWage = NULL /\ repeatedPeriodTime = Unset
  /\ previousBreakStart = NULL /\ previousBreakEnd = NULL
  /\ RecordsIdle /\ FormatIdle

NextWage == WageBegin \/ WageSlot \/ WageFinish

SpecWage == InitWage /\ [][NextWage]_vars

\* The function is synchronous: once called it runs until it returns.
SpecWageFair == SpecWage /\ WF_vars(NextWage)

\* ------------------------------------------------- duration calculators
\* A string is the sequence of its characters.
DigitChars == <<"0", "1", "2", "3", "4", "5", "6", "7", "8", "9">>

\* The literal "00:00".
ZeroTime == <<"0", "0", ":", "0", "0">>

\* Number.NaN.
NaN == "NaN"

RECURSIVE NatToString(_)
NatToString(n) ==
  IF n < 10 THEN <<DigitChars[n + 1]>>
  ELSE NatToString(n \div 10) \o <<DigitChars[(n % 10) + 1]>>

\* Number.prototype.toString of an integer.
toString(n) == IF n < 0 THEN <<"-">> \o NatToString(0 - n) ELSE NatToString(n)

\* No padding at all.
padStartNone(str) == str

\* String.prototype.padStart(2, "0").
padStart(str) == IF Len(str) < 2 THEN <<"0">> \o str ELSE str

\* The % operator of JavaScript: the remainder has the sign of the dividend.
Remainder(a, b) == IF a >= 0 THEN a % b ELSE 0 - ((0 - a) % b)

\* Math.ceil(a / b) for b > 0.
MathCeil(a, b) == 0 - ((0 - a) \div b)

\* Math.floor(a / b) for b > 0.
MathFloor(a, b) == a \div b

formatMinutesToTime(totalMinutes) ==
  LET hours == MathFloor(totalMinutes, MINUTES_IN_HOUR)
      minutes == Remainder(totalMinutes, MINUTES_IN_HOUR)
  IN padStart(toString(hours)) \o <<":">> \o padStart(toString(minutes))

\* The guard `if (diffMinutes < 0)` left out.
calculateWorkTimeUnguarded(cin, cout) ==
  formatMinutesToTime(MathCeil(cout - cin, TicksPerMinute))

\* Minutes rounded down instead of up.
calculateWorkTimeFloor(cin, cout) ==
  LET diffMinutes == MathFloor(cout - cin, TicksPerMinute)
  IN IF diffMinutes < 0 THEN ZeroTime ELSE formatMinutesToTime(diffMinutes)

calculateWorkTime(cin, cout) ==
  LET diffMinutes == MathCeil(cout - cin, TicksPerMinute)
  IN IF diffMinutes < 0 THEN ZeroTime ELSE formatMinutesToTime(diffMinutes)

calculateBreakMinutes(bs, be) ==
  LET diffMilliseconds == be - bs
  IN IF diffMilliseconds <= 0 \/ diffMilliseconds < TicksPerMinute
     THEN 0
     ELSE MathCeil(diffMilliseconds, TicksPerMinute)

\* The period end compared as given (the last day's own midnight), without
\* the advance to the next day's 00:00.
calculateWorkTimeForPeriodNoAdvance(cin, cout, pStart, pEnd) ==
  LET effectiveStart == Max(cin, pStart)
      effectiveEnd == Min(cout, pEnd)
  IN IF effectiveStart >= effectiveEnd THEN ZeroTime
     ELSE formatMinutesToTime(MathFloor(effectiveEnd - effectiveStart, TicksPerMinute))

\* The intersection rounded up, like calculateWorkTime.
calculateWorkTimeForPeriodCeil(cin, cout, pStart, pEnd) ==
  LET adjustedPeriodEnd == setHours(setDate(pEnd, getDate(pEnd) + 1), 0)
      effectiveStart == Max(cin, pStart)
      effectiveEnd == Min(cout, adjustedPeriodEnd)
  IN IF effectiveStart >= effectiveEnd THEN ZeroTime
     ELSE formatMinutesToTime(MathCeil(effectiveEnd - effectiveStart, TicksPerMinute))

calculateWorkTimeForPeriod(cin, cout, pStart, pEnd) ==
  LET adjustedPeriodEnd == setHours(setDate(pEnd, getDate(pEnd) + 1), 0)
      effectiveStart == Max(cin, pStart)
      effectiveEnd == Min(cout, adjustedPeriodEnd)
  IN IF effectiveStart >= effectiveEnd THEN ZeroTime
     ELSE formatMinutesToTime(MathFloor(effectiveEnd - effectiveStart, TicksPerMinute))

RECURSIVE split(_)
\* String.prototype.split(":").
split(str) ==
  IF \A i \in 1..Len(str) : str[i] # ":" THEN <<str>>
  ELSE LET i == CHOOSE k \in 1..Len(str) :
                  str[k] = ":" /\ \A j \in 1..(k - 1) : str[j] # ":"
       IN <<SubSeq(str, 1, i - 1)>> \o split(SubSeq(str, i + 1, Len(str)))

IsDigits(str) == \A i \in 1..Len(str) : \E d \in 1..10 : DigitChars[d] = str[i]

RECURSIVE DigitsValue(_)
DigitsValue(str) ==
  IF str = <<>> THEN 0
  ELSE 10 * DigitsValue(SubSeq(str, 1, Len(str) - 1))
       + (CHOOSE d \in 0..9 : DigitChars[d + 1] = str[Len(str)])

\* Strings Number() converts to an integer: decimal digits with an optional
\* minus sign, or the empty string.
IsNumeric(str) ==
  \/ str = <<>>
  \/ IsDigits(str)
  \/ (Head(str) = "-" /\ Len(str) > 1 /\ IsDigits(Tail(str)))

\* Number(str) of such a string.
Number(str) ==
  IF str = <<>> THEN 0
  ELSE IF Head(str) = "-" THEN 0 - DigitsValue(Tail(str))
  ELSE DigitsValue(str)

\* hours * 60 + minutes of the first two ":"-separated parts; NaN when a part
\* is missing or not a number.
getMinutesFromHHMM(timeString) ==
  LET parts == split(timeString) IN
  IF Len(parts) < 2 \/ ~IsNumeric(parts[1]) \/ ~IsNumeric(parts[2]) THEN NaN
  ELSE Number(parts[1]) * MINUTES_IN_HOUR + Number(parts[2])

\* The subtraction without Math.max(0, ...).
calculateActualWorkTimeUnclamped(cin, cout, bs, be) ==
  IF cout - cin < TicksPerMinute THEN ZeroTime
  ELSE LET totalWorkMinutes == MathCeil(cout - cin, TicksPerMinute)
           breakMinutes == IF bs # NULL /\ be # NULL
                           THEN calculateBreakMinutes(bs, be) ELSE 0
       IN formatMinutesToTime(totalWorkMinutes - breakMinutes)

\* Without the early return for a shift under one minute.
calculateActualWorkTimeNoShortCircuit(cin, cout, bs, be) ==
  LET totalWorkMinutes == MathCeil(cout - cin, TicksPerMinute)
      breakMinutes == IF bs # NULL /\ be # NULL
                      THEN calculateBreakMinutes(bs, be) ELSE 0
      actualMinutes == Max(0, totalWorkMinutes - breakMinutes)
  IN formatMinutesToTime(actualMinutes)

\* The break read whenever its end is set; a null start is new Date(null),
\* the epoch, long before every modelled instant.
calculateActualWorkTimeEndOnly(cin, cout, bs, be) ==
  IF cout - cin < TicksPerMinute THEN ZeroTime
  ELSE LET totalWorkMinutes == MathCeil(cout - cin, TicksPerMinute)
           breakMinutes == IF be # NULL
                           THEN calculateBreakMinutes(0 - TicksPerDay, be) ELSE 0
           actualMinutes == Max(0, totalWorkMinutes - breakMinutes)
       IN formatMinutesToTime(actualMinutes)

calculateActualWorkTime(cin, cout, bs, be) ==
  IF cout - cin < TicksPerMinute THEN ZeroTime
  ELSE LET totalWorkMinutes == MathCeil(cout - cin, TicksPerMinute)
           breakMinutes == IF bs # NULL /\ be # NULL
                           THEN calculateBreakMinutes(bs, be) ELSE 0
           actualMinutes == Max(0, totalWorkMinutes - breakMinutes)
       IN formatMinutesToTime(actualMinutes)

\* firstDayOfMonth / lastDayOfMonth of the month after the period
\* (calculateMonthlyTotal, for a record of the following month).
NextPeriodStart == MonthStartDay(getMonth(periodStart) + 1) * TicksPerDay
NextPeriodEnd == (MonthStartDay(getMonth(periodStart) + 2) - 1) * TicksPerDay

CallCalculateWorkTime ==
  /\ workTime = Unset
  /\ workTime' = calculateWorkTime(clockIn, clockOut)
  /\ UNCHANGED <<storeVars, validateVars, hookVars, formatVars, repeatVars, inputs, wageVars, periodTime, actualTime, nextPeriodTime>>

\* adjustedPeriodEnd copies periodEnd before setDate and setHours.
CallCalculateWorkTimeForPeriod ==
  /\ periodTime = Unset
  /\ periodTime' = calculateWorkTimeForPeriod(clockIn, clockOut, periodStart, periodEnd)
  /\ periodEnd' = AfterMutation("periodEnd", newDateFrom("periodEnd"), periodEnd,
                                setHours(setDate(periodEnd, getDate(periodEnd) + 1), 0))
  /\ UNCHANGED <<storeVars, validateVars, hookVars, formatVars, repeatVars, clockIn, clockOut,
                 breakStart, breakEnd, periodStart, wageVars, workTime, actualTime,
                 nextPeriodTime>>

\* The caller calls calculateWorkTimeForPeriod again with the same Date
\* objects.
CallCalculateWorkTimeForPeriodAgain ==
  /\ periodTime # Unset
  /\ repeatedPeriodTime = Unset
  /\ repeatedPeriodTime' =
       calculateWorkTimeForPeriod(clockIn, clockOut, periodStart, periodEnd)
  /\ periodEnd' = AfterMutation("periodEnd", newDateFrom("periodEnd"), periodEnd,
                                setHours(setDate(periodEnd, getDate(periodEnd) + 1), 0))
  /\ UNCHANGED <<storeVars, validateVars, hookVars, formatVars, previousWage,
                 previousBreakStart, previousBreakEnd, clockIn, clockOut,
                 breakStart, breakEnd, periodStart, wageVars, durationVars>>

CallCalculateWorkTimeForNextPeriod ==
  /\ nextPeriodTime = Unset
  /\ nextPeriodTime' =
       calculateWorkTimeForPeriod(clockIn, clockOut, NextPeriodStart, NextPeriodEnd)
  /\ UNCHANGED <<storeVars, validateVars, hookVars, formatVars, repeatVars, inputs, wageVars, workTime, actualTime, periodTime>>

CallCalculateActualWorkTime ==
  /\ actualTime = Unset
  /\ actualTime' = calculateActualWorkTime(clockIn, clockOut, breakStart, breakEnd)
  /\ UNCHANGED <<storeVars, validateVars, hookVars, formatVars, repeatVars, inputs, wageVars, workTime, periodTime, nextPeriodTime>>

\* Records the duration calculators are run on (month 1 is December, 2 is
\* January, 3 is February).
DurationInstants ==
  { At(1, 31, 22, 0, 0), At(1, 31, 23, 59, TicksPerMinute - 1), At(2, 1, 0, 0, 1),
    At(2, 1, 6, 0, 0), At(2, 15, 9, 0, 0), At(2, 15, 9, 0, 1),
    At(2, 15, 9, 59, TicksPerMinute - 1), At(2, 15, 18, 0, 0), At(2, 31, 22, 0, 0),
    At(2, 31, 23, 59, TicksPerMinute - 1), At(3, 1, 0, 0, 1), At(3, 1, 6, 0, 0) }

DurationBreaks ==
  { At(2, 15, 8, 0, 0), At(2, 15, 12, 0, 0), At(2, 15, 12, 0, 1),
    At(2, 15, 12, 10, 1), At(2, 15, 19, 0, 0) }

\* (periodStart, periodEnd) pairs: December with a period end inside its last
\* day, and January as calculateMonthlyTotal builds it.
Periods ==
  { <<At(1, 1, 0, 0, 0), At(1, 31, 12, 0, 0)>>,
    <<At(2, 1, 0, 0, 0), At(2, 31, 0, 0, 0)>> }

InitDuration ==
  /\ clockIn \in DurationInstants
  /\ clockOut \in DurationInstants
  /\ breakStart \in DurationBreaks \cup {NULL}
  /\ breakEnd \in DurationBreaks \cup {NULL}
  /\ \E p \in Periods : periodStart = p[1] /\ periodEnd = p[2]
  /\ pc = "idle"
  /\ currentTime = NULL /\ totalWage = 0
  /\ adjustedEndTime = NULL /\ adjustedBreakStart = NULL /\ adjustedBreakEnd = NULL
  /\ slots = <<>>
  /\ finalWage = NULL
  /\ workTime = Unset /\ periodTime = Unset /\ actualTime = Unset
  /\ nextPeriodTime = Unset
  /\ previousWage = NULL /\ repeatedPeriodTime = Unset
  /\ previousBreakStart = NULL /\ previousBreakEnd = NULL
  /\ RecordsIdle /\ FormatIdle

NextDuration ==
  \/ CallCalculateWorkTime
  \/ CallCalculateWorkTimeForPeriod
  \/ CallCalculateWorkTimeForNextPeriod
  \/ CallCalculateActualWorkTime

SpecDuration == InitDuration /\ [][NextDuration]_vars

\* ------------------------------------------------- calls on shared Dates
\* Records and periods whose Date objects a caller hands to both calculators,
\* twice each: an ordinary shift, an overnight shift written with both times
\* on one date, a shift across the end of January; breaks before, inside and
\* after the hour of the clock-in.
SharedStarts == { At(2, 15, 9, 0, 0), At(2, 15, 21, 0, 0), At(2, 31, 22, 0, 0) }
SharedEnds == { At(2, 15, 2, 0, 0), At(2, 15, 18, 0, 0), At(3, 1, 2, 0, 0) }
SharedBreaks ==
  { At(2, 14, 12, 0, 0), At(2, 15, 12, 0, 0), At(2, 15, 23, 0, 0), At(2, 15, 0, 30, 0) }

InitShared ==
  /\ clockIn \in SharedStarts
  /\ clockOut \in SharedEnds
  /\ breakStart \in SharedBreaks \cup {NULL}
  /\ breakEnd \in SharedBreaks \cup {NULL}
  /\ \E p \in Periods : periodStart = p[1] /\ periodEnd = p[2]
  /\ pc = "call"
  /\ currentTime = NULL /\ totalWage = 0
  /\ adjustedEndTime = NULL /\ adjustedBreakStart = NULL /\ adjustedBreakEnd = NULL
  /\ slots = <<>>
  /\ finalWage = NULL
  /\ workTime = Unset /\ periodTime = Unset /\ actualTime = Unset
  /\ nextPeriodTime = Unset
  /\ previousWage = NULL /\ repeatedPeriodTime = Unset
  /\ previousBreakStart = NULL /\ previousBreakEnd = NULL
  /\ RecordsIdle /\ FormatIdle

NextShared ==
  \/ WageBegin
  \/ WageSlot
  \/ WageFinish
  \/ WageAgain
  \/ CallCalculateWorkTimeForPeriod
  \/ CallCalculateWorkTimeForPeriodAgain

SpecShared == InitShared /\ [][NextShared]_vars

\* --------------------------------------------- calls with and without break
\* Shifts priced twice, with a break and without it, and their net duration:
\* day, evening and overnight shifts; breaks inside and outside the shift, on
\* the day before, across 22:00 and after midnight.
BreakShiftStarts == { At(2, 15, 9, 0, 0), At(2, 15, 21, 0, 0), At(2, 15, 23, 45, 0) }
BreakShiftEnds == { At(2, 15, 18, 0, 0), At(2, 15, 22, 15, 0), At(2, 16, 2, 0, 0) }
BreakTimes ==
  { At(2, 14, 12, 0, 0), At(2, 15, 10, 0, 0), At(2, 15, 12, 0, 0), At(2, 15, 21, 30, 0),
    At(2, 15, 22, 15, 0), At(2, 16, 0, 30, 0), At(2, 16, 1, 0, 0) }

InitBreak ==
  /\ clockIn \in BreakShiftStarts
  /\ clockOut \in BreakShiftEnds
  /\ breakStart \in BreakTimes \cup {NULL}
  /\ breakEnd \in BreakTimes \cup {NULL}
  /\ periodStart = NULL /\ periodEnd = NULL
  /\ pc = "call"
  /\ currentTime = NULL /\ totalWage = 0
  /\ adjustedEndTime = NULL /\ adjustedBreakStart = NULL /\ adjustedBreakEnd = NULL
  /\ slots = <<>>
  /\ finalWage = NULL
  /\ workTime = Unset /\ periodTime = Unset /\ actualTime = Unset
  /\ nextPeriodTime = Unset
  /\ previousWage = NULL /\ repeatedPeriodTime = Unset
  /\ previousBreakStart = NULL /\ previousBreakEnd = NULL
  /\ RecordsIdle /\ FormatIdle

NextBreak ==
  \/ WageBegin
  \/ WageSlot
  \/ WageFinish
  \/ WageWithoutBreak
  \/ CallCalculateActualWorkTime

SpecBreak == InitBreak /\ [][NextBreak]_vars

\* -------------------------------------------------------- record validator
\* A clock_out that is the empty string.
EmptyString == -2

\* The inputs and results of the single-record calculators while the
\* validator, the hook or the formatter runs.
CalculatorsIdle ==
  /\ clockIn = NULL /\ clockOut = NULL /\ breakStart = NULL /\ breakEnd = NULL
  /\ periodStart = NULL /\ periodEnd = NULL
  /\ currentTime = NULL /\ totalWage = 0
  /\ adjustedEndTime = NULL /\ adjustedBreakStart = NULL /\ adjustedBreakEnd = NULL
  /\ slots = <<>>
  /\ finalWage = NULL
  /\ workTime = Unset /\ periodTime = Unset /\ actualTime = Unset
  /\ nextPeriodTime = Unset
  /\ previousWage = NULL /\ repeatedPeriodTime = Unset
  /\ previousBreakStart = NULL /\ previousBreakEnd = NULL

\* !value for a clock_out: null and "" are falsy.
IsFalsy(value) == value = NULL \/ value = EmptyString

\* Date.prototype.toDateString of a valid Date: the calendar day.
toDateString(t) == DayIndex(t)

\* records.filter((record) => !record.clock_out).length
unclockedOutCountNullOnly(recs) ==
  Cardinality({i \in DOMAIN recs : recs[i].clock_out = NULL})

unclockedOutCount(recs) ==
  Cardinality({i \in DOMAIN recs : IsFalsy(recs[i].clock_out)})

\* Array.prototype.sort with the comparator a.clock_in - b.clock_in is
\* stable: records with equal clock_in keep their order.
RECURSIVE insertByClockIn(_, _)
insertByClockIn(sorted, record) ==
  IF sorted = <<>> THEN <<record>>
  ELSE IF Head(sorted).clock_in <= record.clock_in
       THEN <<Head(sorted)>> \o insertByClockIn(Tail(sorted), record)
       ELSE <<record>> \o sorted

RECURSIVE sortByClockIn(_)
sortByClockIn(recs) ==
  IF recs = <<>> THEN <<>>
  ELSE insertByClockIn(sortByClockIn(SubSeq(recs, 1, Len(recs) - 1)),
                       recs[Len(recs)])

\* Body of the for loop for one pair of neighbours; TRUE stands for
\* "continue" and for falling through to the next iteration, FALSE for
\* "return false".  An empty clock_out makes new Date(...) invalid: its
\* toDateString() differs from the successor's and every comparison with its
\* getTime() (NaN) is false.
pairIsValidStrictOnly(prevRecord, currentRecord) ==
  IF /\ prevRecord.clock_in = currentRecord.clock_in
     /\ prevRecord.clock_out = currentRecord.clock_out
  THEN TRUE
  ELSE IF prevRecord.clock_out = NULL THEN FALSE
  ELSE IF prevRecord.clock_out = EmptyString THEN TRUE
  ELSE ~(currentRecord.clock_in <= prevRecord.clock_out)

pairIsValidMinuteGap(prevRecord, currentRecord) ==
  IF /\ prevRecord.clock_in = currentRecord.clock_in
     /\ prevRecord.clock_out = currentRecord.clock_out
  THEN TRUE
  ELSE IF prevRecord.clock_out = NULL THEN FALSE
  ELSE IF prevRecord.clock_out = EmptyString THEN TRUE
  ELSE ~(currentRecord.clock_in - prevRecord.clock_out < TicksPerMinute)

pairIsValid(prevRecord, currentRecord) ==
  IF /\ prevRecord.clock_in = currentRecord.clock_in
     /\ prevRecord.clock_out = currentRecord.clock_out
  THEN TRUE
  ELSE IF prevRecord.clock_out = NULL THEN FALSE
  ELSE IF prevRecord.clock_out = EmptyString THEN TRUE
  ELSE LET prevClockOut == prevRecord.clock_out
           currentClockIn == currentRecord.clock_in
           isSameDay == toDateString(prevClockOut) = toDateString(currentClockIn)
       IN IF isSameDay
          THEN ~(currentClockIn - prevClockOut < TicksPerMinute)
          ELSE ~(currentClockIn <= prevClockOut)

validateRecords(recs) ==
  IF Len(recs) = 0 THEN TRUE
  ELSE IF unclockedOutCount(recs) > 1 THEN FALSE
  ELSE LET sortedRecords == sortByClockIn(recs)
       IN \A i \in 2..Len(sortedRecords) :
            pairIsValid(sortedRecords[i - 1], sortedRecords[i])

CallValidateRecords ==
  /\ pc = "validate"
  /\ valid' = validateRecords(attendance)
  /\ pc' = "validated"
  /\ UNCHANGED <<storeVars, repeatVars, inputs, currentTime, totalWage, adjustedEndTime, adjustedBreakStart,
                 adjustedBreakEnd, slots, finalWage, durationVars, attendance,
                 hookVars, formatVars>>

Row(cin, cout, bs, be) ==
  [clock_in |-> cin, clock_out |-> cout, break_start |-> bs, break_end |-> be]

\* Rows the validator is run on: neighbours on one day with a gap of zero,
\* of twenty seconds and of one minute, neighbours across midnight, an
\* overnight row, open rows and a row with an empty clock_out.
ValidationRecords ==
  { Row(At(2, 15, 9, 0, 0), At(2, 15, 18, 0, 0), NULL, NULL),
    Row(At(2, 15, 18, 0, 0), At(2, 15, 19, 0, 0), NULL, NULL),
    Row(At(2, 15, 18, 0, 1), At(2, 15, 19, 0, 0), NULL, NULL),
    Row(At(2, 15, 18, 1, 0), At(2, 15, 19, 0, 0), NULL, NULL),
    Row(At(2, 15, 19, 30, 0), At(2, 15, 23, 59, TicksPerMinute - 1), NULL, NULL),
    Row(At(2, 15, 22, 0, 0), At(2, 16, 5, 0, 0), NULL, NULL),
    Row(At(2, 16, 0, 0, 0), At(2, 16, 8, 0, 0), NULL, NULL),
    Row(At(2, 16, 9, 0, 0), At(2, 16, 18, 0, 0), NULL, NULL),
    Row(At(2, 16, 9, 0, 0), NULL, NULL, NULL),
    Row(At(2, 17, 9, 0, 0), NULL, NULL, NULL),
    Row(At(2, 14, 9, 0, 0), NULL, NULL, NULL),
    Row(At(2, 14, 9, 0, 0), EmptyString, NULL, NULL) }

RecordLists(universe) == UNION { [1..n -> universe] : n \in 0..MaxRecords }

InitValidate ==
  /\ StoreIdle
  /\ attendance \in RecordLists(ValidationRecords)
  /\ valid = FALSE
  /\ pc = "validate"
  /\ CalculatorsIdle
  /\ now = NULL /\ viewYear = NULL /\ viewMonth = NULL
  /\ records = <<>> /\ monthlyTotal = NULL /\ error = NULL
  /\ formattedMonthlyTotal = Unset
  /\ FormatIdle

NextValidate == CallValidateRecords

SpecValidate == InitValidate /\ [][NextValidate]_vars

\* ----------------------------------------------------- hook: monthly totals
\* null and undefined where a string is expected (AttendanceRecord.clockOut,
\* the error state).
NullString == <<"null">>
Undefined == <<"undefined">>

DATA_INCONSISTENCY == <<"DATA_INCONSISTENCY">>

\* record[name]; undefined when the object has no such property.
Property(record, name) ==
  IF name \in DOMAIN record THEN record[name] ELSE Undefined

\* !value for a string-typed property.
IsFalsyString(value) == value \in {NullString, Undefined, <<>>}

\* Date.prototype.getFullYear: December belongs to the year before.
getFullYear(t) == IF getMonth(t) = 1 THEN 2023 ELSE 2024

\* new Date(year, month, day) at 00:00; day 0 is the last day of the month
\* before.
newDate(month, day) == (MonthStartDay(month) + day - 1) * TicksPerDay

\* toLocaleTimeString('ja-JP', {hour: '2-digit', minute: '2-digit'}).
formatTimeString(date) ==
  padStart(toString(getHours(date))) \o <<":">>
    \o padStart(toString((TimeOfDay(date) % TicksPerHour) \div TicksPerMinute))

\* The reducer of calculateMonthlyTotal for one record.
recordMinutes(record) ==
  IF IsFalsyString(Property(record, "clockOut")) THEN 0
  ELSE LET date == record.originalClockIn
           firstDayOfMonth == newDate(getMonth(date), 1)
           lastDayOfMonth == newDate(getMonth(date) + 1, 0)
           time == calculateWorkTimeForPeriod(record.originalClockIn,
                                              record.originalClockOut,
                                              firstDayOfMonth, lastDayOfMonth)
       IN getMinutesFromHHMM(time)

RECURSIVE reduceMinutes(_)
reduceMinutes(recs) ==
  IF recs = <<>> THEN 0
  ELSE reduceMinutes(SubSeq(recs, 1, Len(recs) - 1)) + recordMinutes(recs[Len(recs)])

calculateMonthlyTotal(recs) ==
  LET sumOfMinutes == reduceMinutes(recs)
      actualMinutes == Min(sumOfMinutes, MAX_MONTHLY_MINUTES)
  IN [hours |-> MathFloor(actualMinutes, MINUTES_IN_HOUR),
      minutes |-> Remainder(actualMinutes, MINUTES_IN_HOUR)]

\* The rows the query of fetchData returns from the table `rows` at the
\* instant t, in clock_in order.
attendanceDataOf(rows, t) ==
  LET currentMonth == getMonth(t)
      firstDayOfCurrentMonth == newDate(currentMonth, 1)
      startOfNextMonth == newDate(currentMonth + 1, 1)
      firstDayOfPreviousMonth == newDate(currentMonth - 1, 1)
      selected(row) ==
        \/ /\ row.clock_in >= firstDayOfPreviousMonth
           /\ row.clock_in < startOfNextMonth
        \/ /\ row.clock_in < firstDayOfPreviousMonth
           /\ row.clock_out # NULL
           /\ row.clock_out >= firstDayOfCurrentMonth
  IN sortByClockIn(SelectSeq(rows, selected))

attendanceData == attendanceDataOf(attendance, now)

\* One element of formattedRecords.
formatRecord(row) ==
  [clockIn |-> formatTimeString(row.clock_in),
   clockOut |-> IF row.clock_out # NULL THEN formatTimeString(row.clock_out)
                ELSE NullString,
   isCrossDay |-> IF row.clock_out # NULL
                  THEN toDateString(row.clock_in) # toDateString(row.clock_out)
                  ELSE FALSE,
   originalClockIn |-> row.clock_in,
   originalClockOut |-> row.clock_out,
   breakStart |-> row.break_start,
   breakEnd |-> row.break_end]

RECURSIVE mapFormatRecord(_)
mapFormatRecord(rows) ==
  IF rows = <<>> THEN <<>>
  ELSE <<formatRecord(Head(rows))>> \o mapFormatRecord(Tail(rows))

formattedRecordsIn(rows, currentMonth) ==
  LET shown(row) ==
        \/ getMonth(row.clock_in) = currentMonth
        \/ /\ row.clock_out # NULL
           /\ getMonth(row.clock_out) = currentMonth
           /\ getMonth(row.clock_in) # currentMonth
  IN mapFormatRecord(SelectSeq(rows, shown))

formattedRecords(rows) == formattedRecordsIn(rows, getMonth(now))

\* The records of the viewed month.
filteredRecords(recs, year, month) ==
  SelectSeq(recs,
            LAMBDA record : /\ getFullYear(record.originalClockIn) = year
                            /\ getMonth(record.originalClockIn) = month)

\* The reducer of actualMonthlyTotal for one record.
actualMinutesOf(record) ==
  IF /\ ~IsFalsyString(record.clockOut)
     /\ record.originalClockIn # NULL
     /\ record.originalClockOut # NULL
  THEN getMinutesFromHHMM(calculateActualWorkTime(record.originalClockIn,
                                                   record.originalClockOut,
                                                   record.breakStart, record.breakEnd))
  ELSE 0

RECURSIVE actualMonthlyTotal(_)
actualMonthlyTotal(recs) ==
  IF recs = <<>> THEN 0
  ELSE actualMonthlyTotal(SubSeq(recs, 1, Len(recs) - 1)) + actualMinutesOf(recs[Len(recs)])

\* What AttendanceContent renders as the total of the viewed month.
renderMonthlyTotal(recs, year, month) ==
  formatMinutesToTime(actualMonthlyTotal(filteredRecords(recs, year, month)))

\* fetchData: monthly total, records and consistency error; the page renders
\* with the new state.
FetchData ==
  /\ pc = "mounted"
  /\ monthlyTotal' = calculateMonthlyTotal(attendanceData)
  /\ records' = formattedRecords(attendanceData)
  /\ error' = IF ~validateRecords(attendanceData) THEN DATA_INCONSISTENCY
              ELSE NullString
  /\ formattedMonthlyTotal' = renderMonthlyTotal(records', viewYear, viewMonth)
  /\ pc' = "shown"
  /\ UNCHANGED <<storeVars, repeatVars, inputs, currentTime, totalWage, adjustedEndTime, adjustedBreakStart,
                 adjustedBreakEnd, slots, finalWage, durationVars, validateVars,
                 now, viewYear, viewMonth, formatVars>>

\* The previous-month button; the page renders the month it moved to.
PreviousMonth ==
  /\ pc = "shown"
  /\ viewMonth > 1
  /\ viewMonth' = viewMonth - 1
  /\ viewYear' = IF viewMonth = 2 THEN viewYear - 1 ELSE viewYear
  /\ formattedMonthlyTotal' = renderMonthlyTotal(records, viewYear', viewMonth')
  /\ UNCHANGED <<storeVars, repeatVars, inputs, wageVars, durationVars, validateVars, now, records,
                 monthlyTotal, error, formatVars>>

\* The next-month button.
NextMonth ==
  /\ pc = "shown"
  /\ viewMonth < Len(MonthLengths)
  /\ viewMonth' = viewMonth + 1
  /\ viewYear' = IF viewMonth = 1 THEN viewYear + 1 ELSE viewYear
  /\ formattedMonthlyTotal' = renderMonthlyTotal(records, viewYear', viewMonth')
  /\ UNCHANGED <<storeVars, repeatVars, inputs, wageVars, durationVars, validateVars, now, records,
                 monthlyTotal, error, formatVars>>

\* Rows in the table: a week-long record, ordinary days with and without a
\* break, a record of the month before, a shift across the end of January, a
\* record on the last day of January and an open record.
MonthlyRecords ==
  { Row(At(2, 1, 0, 0, 0), At(2, 8, 0, 0, 0), NULL, NULL),
    Row(At(2, 10, 0, 0, 0), At(2, 14, 0, 0, 0), NULL, NULL),
    Row(At(2, 15, 9, 0, 0), At(2, 15, 18, 0, 0), At(2, 15, 12, 0, 0), At(2, 15, 13, 0, 0)),
    Row(At(1, 20, 9, 0, 0), At(1, 20, 18, 0, 0), NULL, NULL),
    Row(At(2, 31, 9, 0, 0), At(2, 31, 18, 0, 0), NULL, NULL),
    Row(At(2, 31, 22, 0, 0), At(3, 1, 6, 0, 0), NULL, NULL),
    Row(At(3, 3, 9, 0, 0), At(3, 3, 17, 0, 0), NULL, NULL),
    Row(At(3, 10, 9, 0, 0), NULL, NULL, NULL) }

\* new Date() when the page is opened: in January or in February.
Nows == { At(2, 20, 12, 0, 0), At(3, 10, 12, 0, 0) }

InitMonthly ==
  /\ StoreIdle
  /\ attendance \in RecordLists(MonthlyRecords)
  /\ valid = FALSE
  /\ now \in Nows
  /\ viewYear = getFullYear(now)
  /\ viewMonth = getMonth(now)
  /\ records = <<>>
  /\ monthlyTotal = NULL
  /\ error = NullString
  /\ formattedMonthlyTotal = Unset
  /\ pc = "mounted"
  /\ CalculatorsIdle
  /\ FormatIdle

NextMonthly == FetchData \/ PreviousMonth \/ NextMonth

SpecMonthly == InitMonthly /\ [][NextMonthly]_vars

\* ------------------------------------------------- hook: attendance store
\* The sessions (browser tabs) that act for the staff member.
Sessions == {1, 2}

\* The wall clock moves through these instants: a working day, its evening
\* and the next morning.
ClockInstants ==
  << At(2, 15, 9, 0, 0), At(2, 15, 18, 0, 0), At(2, 16, 9, 0, 0) >>

\* The messages of ATTENDANCE_ERRORS; the messages the handlers write out as
\* literals appear below as literals.
ALREADY_WORKING == <<"ALREADY_WORKING">>
ALREADY_COMPLETED == <<"ALREADY_COMPLETED">>
INVALID_CLOCK_OUT == <<"INVALID_CLOCK_OUT">>
FETCH_ERROR == <<"FETCH_ERROR">>
BREAK_ALREADY_STARTED == <<"BREAK_ALREADY_STARTED">>
NO_BREAK_RECORD == <<"NO_BREAK_RECORD">>
INVALID_BREAK_END == <<"INVALID_BREAK_END">>

\* A row of the attendance table with its primary key.
StoreRow(id, cin, cout, bs, be) ==
  [id |-> id, clock_in |-> cin, clock_out |-> cout, break_start |-> bs,
   break_end |-> be]

\* null where a row is expected.
NoRecord == StoreRow(0, NULL, NULL, NULL, NULL)

\* date.toISOString().split('T')[0]: the UTC calendar day (the instants of
\* the model are UTC instants).
toISODate(t) == DayIndex(t)

\* .order('clock_in', { ascending: false }).limit(1): the row with the
\* greatest clock_in, any of them when several have it, null for no row.
LatestRecords(rows) ==
  IF rows = <<>> THEN {NoRecord}
  ELSE {rows[i] : i \in {j \in DOMAIN rows :
                           \A k \in DOMAIN rows : rows[k].clock_in <= rows[j].clock_in}}

\* .is('clock_out', null)
OpenRows(rows) == SelectSeq(rows, LAMBDA row : row.clock_out = NULL)

\* The checks of handleAttendance on the record it read: the message thrown,
\* null when the request goes through.
attendanceRejection(type, latestRecord, t) ==
  IF type = "clockIn"
  THEN IF latestRecord # NoRecord /\ latestRecord.clock_out = NULL
       THEN ALREADY_WORKING
       ELSE IF /\ latestRecord # NoRecord /\ latestRecord.clock_out # NULL
               /\ toISODate(latestRecord.clock_in) = toISODate(t)
            THEN ALREADY_COMPLETED
            ELSE NullString
  ELSE IF latestRecord = NoRecord \/ latestRecord.clock_out # NULL
       THEN <<"no clock-in record, or already clocked out">>
       ELSE IF latestRecord.clock_in > t THEN INVALID_CLOCK_OUT
       ELSE NullString

\* The checks of handleBreak on the result of its .single() query.
breakRejectionWithoutStarted(type, latestRecord, fetchError, t) ==
  IF fetchError THEN FETCH_ERROR
  ELSE IF type = "breakStart"
  THEN IF latestRecord.break_start # NULL /\ latestRecord.break_end # NULL
       THEN BREAK_ALREADY_STARTED
       ELSE IF t < latestRecord.clock_in THEN <<"break cannot start before clock-in">>
       ELSE NullString
  ELSE IF latestRecord.break_start = NULL THEN NO_BREAK_RECORD
       ELSE IF latestRecord.break_end # NULL THEN <<"break already ended">>
       ELSE IF t < latestRecord.break_start THEN INVALID_BREAK_END
       ELSE NullString

breakRejection(type, latestRecord, fetchError, t) ==
  IF fetchError THEN FETCH_ERROR
  ELSE IF type = "breakStart"
  THEN IF latestRecord.break_start # NULL /\ latestRecord.break_end # NULL
       THEN BREAK_ALREADY_STARTED
       ELSE IF latestRecord.break_start # NULL /\ latestRecord.break_end = NULL
       THEN <<"already on break">>
       ELSE IF t < latestRecord.clock_in THEN <<"break cannot start before clock-in">>
       ELSE NullString
  ELSE IF latestRecord.break_start = NULL THEN NO_BREAK_RECORD
       ELSE IF latestRecord.break_end # NULL THEN <<"break already ended">>
       ELSE IF t < latestRecord.break_start THEN INVALID_BREAK_END
       ELSE NullString

\* array.findLast(predicate), null when no element satisfies it; `hits` are
\* the indices of the elements that satisfy the predicate.
findLast(rows, hits) ==
  IF hits = {} THEN NoRecord
  ELSE rows[CHOOSE i \in hits : \A j \in hits : j <= i]

\* The AttendanceStatus fetchData derives from the rows it fetched.
currentStatus(rows) ==
  LET lastUnclockedOut ==
        findLast(rows, {i \in DOMAIN rows : rows[i].clock_out = NULL})
      lastClockedOut ==
        findLast(rows, {i \in DOMAIN rows : rows[i].clock_out # NULL})
  IN [isWorking |-> lastUnclockedOut # NoRecord,
      lastClockIn |-> IF lastUnclockedOut # NoRecord THEN lastUnclockedOut.clock_in
                      ELSE lastClockedOut.clock_in,
      lastClockOut |-> IF lastUnclockedOut # NoRecord THEN NULL
                       ELSE lastClockedOut.clock_out,
      isOnBreak |-> /\ lastUnclockedOut.break_start # NULL
                    /\ lastUnclockedOut.break_end = NULL,
      status |-> IF lastUnclockedOut # NoRecord THEN <<"working">>
                 ELSE IF lastClockedOut # NoRecord THEN <<"clocked out">>
                 ELSE NullString,
      breakStart |-> lastUnclockedOut.break_start,
      isBreakCompleted |-> /\ lastUnclockedOut.break_start # NULL
                           /\ lastUnclockedOut.break_end # NULL]

\* The hook state fetchData sets from the table `rows` at the instant t.
fetchedFrom(rows, t) ==
  LET data == attendanceDataOf(rows, t)
  IN [isTodayCompleted |-> \E i \in DOMAIN data :
                             /\ toISODate(data[i].clock_in) = toISODate(t)
                             /\ data[i].clock_out # NULL,
      monthlyTotal |-> calculateMonthlyTotal(data),
      records |-> formattedRecordsIn(data, getMonth(t)),
      status |-> currentStatus(data),
      error |-> IF ~validateRecords(data) THEN DATA_INCONSISTENCY
                ELSE NullString]

\* The hook state of a page that has not fetched yet.
initialHook ==
  [isTodayCompleted |-> FALSE,
   monthlyTotal |-> [hours |-> NULL, minutes |-> NULL],
   records |-> <<>>,
   status |-> currentStatus(<<>>),
   error |-> NullString]

\* A session before its first call; `calls` counts the calls it has started,
\* up to MaxCalls.
idleSession ==
  [pc |-> "idle", type |-> "none", now |-> NULL, latestRecord |-> NoRecord,
   fetchError |-> FALSE, idsToDelete |-> {}, calls |-> 0]

\* A session that starts a call, and one whose call has returned.
called(session) == [idleSession EXCEPT !.calls = Min(session.calls + 1, MaxCalls)]
returned(session) == [idleSession EXCEPT !.calls = session.calls]

\* The disabled rules of the four action buttons.
buttonEnabled(hook, type) ==
  CASE type = "clockIn" -> ~(hook.status.isWorking \/ hook.isTodayCompleted)
    [] type = "clockOut" -> ~(~hook.status.isWorking \/ hook.status.isOnBreak)
    [] type = "breakStart" -> ~(\/ ~hook.status.isWorking
                                \/ hook.status.isOnBreak
                                \/ hook.status.isBreakCompleted)
    [] type = "breakEnd" -> hook.status.isOnBreak

\* The ids fixData deletes among the rows it selected: every open row but
\* the last one in clock_in order, and none when at most one row is open.
fixDataIdsToDeleteAllOpen(recordsToFix) ==
  LET unclockedOutRecords == OpenRows(recordsToFix)
  IN IF Len(unclockedOutRecords) > 1
     THEN {unclockedOutRecords[i].id : i \in 1..Len(unclockedOutRecords)}
     ELSE {}

fixDataIdsToDelete(recordsToFix) ==
  LET unclockedOutRecords == OpenRows(recordsToFix)
  IN IF Len(unclockedOutRecords) > 1
     THEN {unclockedOutRecords[i].id : i \in 1..(Len(unclockedOutRecords) - 1)}
     ELSE {}

\* The rows the query of fixData returns, in clock_in order; the date-only
\* string `today` stands for the start of the UTC day in the filter.
recordsToFixOf(rows, t) ==
  LET today == t - TimeOfDay(t)
  IN sortByClockIn(SelectSeq(rows, LAMBDA row :
                                     \/ row.clock_in >= today
                                     \/ row.clock_out # NULL /\ row.clock_out >= today))

\* Everything but the table, the clock and the sessions.
StoreFrame ==
  UNCHANGED <<repeatVars, inputs, wageVars, durationVars, valid, viewYear,
              viewMonth, records, monthlyTotal, error, formattedMonthlyTotal,
              formatVars>>

\* Time passes.
Tick ==
  /\ now < ClockInstants[Len(ClockInstants)]
  /\ now' = ClockInstants[CHOOSE i \in DOMAIN ClockInstants :
                            /\ ClockInstants[i] > now
                            /\ \A j \in DOMAIN ClockInstants :
                                 ClockInstants[j] > now => i <= j]
  /\ UNCHANGED <<attendance, storeVars>>
  /\ StoreFrame

\* handleAttendance, up to the answer of the query for the latest record.
HandleAttendanceRead(s, type) ==
  /\ sessions[s].pc = "idle"
  /\ \E latestRecord \in LatestRecords(attendance) :
       sessions' = [sessions EXCEPT ![s] =
                      [called(sessions[s]) EXCEPT !.pc = "attendanceRead", !.type = type,
                                          !.now = now, !.latestRecord = latestRecord]]
  /\ UNCHANGED <<attendance, now, hooks, nextId>>
  /\ StoreFrame

\* The checks on the record read: a refused request ends in the catch block.
HandleAttendanceCheck(s) ==
  /\ sessions[s].pc = "attendanceRead"
  /\ LET message == attendanceRejection(sessions[s].type, sessions[s].latestRecord,
                                        sessions[s].now)
     IN IF message # NullString
        THEN /\ hooks' = [hooks EXCEPT ![s].error = message]
             /\ sessions' = [sessions EXCEPT ![s] = returned(sessions[s])]
        ELSE /\ sessions' = [sessions EXCEPT ![s].pc = "attendanceWrite"]
             /\ hooks' = hooks
  /\ UNCHANGED <<attendance, now, nextId>>
  /\ StoreFrame

\* The insert of a clock-in or the update of a clock-out, then
\* await fetchData() and setError(null).
HandleAttendanceWrite(s) ==
  /\ sessions[s].pc = "attendanceWrite"
  /\ LET written ==
           IF sessions[s].type = "clockIn"
           THEN Append(attendance, StoreRow(nextId, sessions[s].now, NULL, NULL, NULL))
           ELSE [i \in DOMAIN attendance |->
                   IF attendance[i].id = sessions[s].latestRecord.id
                   THEN [attendance[i] EXCEPT !.clock_out = sessions[s].now]
                   ELSE attendance[i]]
     IN /\ attendance' = written
        /\ hooks' = [hooks EXCEPT ![s] =
                       [fetchedFrom(written, now) EXCEPT !.error = NullString]]
  /\ nextId' = IF sessions[s].type = "clockIn" THEN nextId + 1 ELSE nextId
  /\ now' = now
  /\ sessions' = [sessions EXCEPT ![s] = returned(sessions[s])]
  /\ StoreFrame

\* handleBreak, up to the answer of the .single() query for the open record:
\* the query fails unless exactly one row is open.
HandleBreakRead(s, type) ==
  /\ sessions[s].pc = "idle"
  /\ LET open == OpenRows(attendance)
     IN sessions' = [sessions EXCEPT ![s] =
                       [called(sessions[s]) EXCEPT !.pc = "breakRead", !.type = type,
                                           !.now = now,
                                           !.fetchError = (Len(open) # 1),
                                           !.latestRecord = IF Len(open) = 1 THEN open[1]
                                                            ELSE NoRecord]]
  /\ UNCHANGED <<attendance, now, hooks, nextId>>
  /\ StoreFrame

HandleBreakCheck(s) ==
  /\ sessions[s].pc = "breakRead"
  /\ LET message == breakRejection(sessions[s].type, sessions[s].latestRecord,
                                   sessions[s].fetchError, sessions[s].now)
     IN IF message # NullString
        THEN /\ hooks' = [hooks EXCEPT ![s].error = message]
             /\ sessions' = [sessions EXCEPT ![s] = returned(sessions[s])]
        ELSE /\ sessions' = [sessions EXCEPT ![s].pc = "breakWrite"]
             /\ hooks' = hooks
  /\ UNCHANGED <<attendance, now, nextId>>
  /\ StoreFrame

\* The update of break_start or break_end, then setStatus and setError(null).
\* When the row is gone the update changes nothing and .single() may report
\* an error.
HandleBreakWrite(s) ==
  /\ sessions[s].pc = "breakWrite"
  /\ attendance' = [i \in DOMAIN attendance |->
                      IF attendance[i].id = sessions[s].latestRecord.id
                      THEN IF sessions[s].type = "breakStart"
                           THEN [attendance[i] EXCEPT !.break_start = sessions[s].now]
                           ELSE [attendance[i] EXCEPT !.break_end = sessions[s].now]
                      ELSE attendance[i]]
  /\ \E updateError \in {FALSE} \cup {attendance' = attendance} :
       hooks' = [hooks EXCEPT ![s] =
                   IF updateError
                   THEN [hooks[s] EXCEPT !.error = <<"break update failed">>]
                   ELSE [hooks[s] EXCEPT
                           !.status.isOnBreak = (sessions[s].type = "breakStart"),
                           !.status.breakStart =
                              IF sessions[s].type = "breakStart" THEN sessions[s].now
                              ELSE hooks[s].status.breakStart,
                           !.status.isBreakCompleted = (sessions[s].type = "breakEnd"),
                           !.error = NullString]]
  /\ sessions' = [sessions EXCEPT ![s] = returned(sessions[s])]
  /\ UNCHANGED <<now, nextId>>
  /\ StoreFrame

\* fixData, up to the choice of the rows to delete. With no row to look at
\* it only shows an alert; with rows but nothing to delete it calls
\* fetchData at once.
FixDataRead(s) ==
  /\ sessions[s].pc = "idle"
  /\ LET recordsToFix == recordsToFixOf(attendance, now)
         idsToDelete == fixDataIdsToDelete(recordsToFix)
     IN IF idsToDelete # {}
        THEN /\ sessions' = [sessions EXCEPT ![s] =
                               [called(sessions[s]) EXCEPT !.pc = "fixDelete",
                                                   !.idsToDelete = idsToDelete]]
             /\ hooks' = hooks
        ELSE /\ sessions' = [sessions EXCEPT ![s] = called(sessions[s])]
             /\ hooks' = IF Len(recordsToFix) = 0 THEN hooks
                         ELSE [hooks EXCEPT ![s] = fetchedFrom(attendance, now)]
  /\ UNCHANGED <<attendance, now, nextId>>
  /\ StoreFrame

\* .delete().in('id', idsToDelete), then await fetchData().
FixDataDelete(s) ==
  /\ sessions[s].pc = "fixDelete"
  /\ LET remaining == SelectSeq(attendance,
                                LAMBDA row : row.id \notin sessions[s].idsToDelete)
     IN /\ attendance' = remaining
        /\ hooks' = [hooks EXCEPT ![s] = fetchedFrom(remaining, now)]
  /\ now' = now
  /\ sessions' = [sessions EXCEPT ![s] = returned(sessions[s])]
  /\ nextId' = nextId
  /\ StoreFrame

\* The page is opened or reloaded: the effect calls fetchData.
Reload(s) ==
  /\ sessions[s].pc = "idle"
  /\ hooks' = [hooks EXCEPT ![s] = fetchedFrom(attendance, now)]
  /\ sessions' = [sessions EXCEPT ![s] = called(sessions[s])]
  /\ UNCHANGED <<attendance, now, nextId>>
  /\ StoreFrame

\* A click on one of the four action buttons of the page.
ClickAttendance(s, type) ==
  /\ buttonEnabled(hooks[s], type)
  /\ HandleAttendanceRead(s, type)

ClickBreak(s, type) ==
  /\ buttonEnabled(hooks[s], type)
  /\ HandleBreakRead(s, type)

\* The pages are opened on a table without an open record.
StoreStart ==
  /\ nextId = Len(attendance) + 1
  /\ now = ClockInstants[1]
  /\ sessions = [s \in Sessions |-> idleSession]
  /\ hooks = [s \in Sessions |-> initialHook]
  /\ valid = FALSE
  /\ viewYear = NULL /\ viewMonth = NULL
  /\ records = <<>> /\ monthlyTotal = NULL /\ error = NULL
  /\ formattedMonthlyTotal = Unset
  /\ pc = "store"
  /\ CalculatorsIdle
  /\ FormatIdle

\* The table has no row yet or a closed record of the day before.
InitStore ==
  /\ attendance \in { <<>>,
                       <<StoreRow(1, At(2, 14, 9, 0, 0), At(2, 14, 18, 0, 0),
                                  At(2, 14, 12, 0, 0), At(2, 14, 13, 0, 0))>> }
  /\ StoreStart

\* The table may also hold a closed record of the day after, as the test
\* pattern of several days (testData.ts) writes it.
InitSession ==
  /\ attendance \in { <<>>,
                       <<StoreRow(1, At(2, 14, 9, 0, 0), At(2, 14, 18, 0, 0),
                                  At(2, 14, 12, 0, 0), At(2, 14, 13, 0, 0))>>,
                       <<StoreRow(1, At(2, 16, 20, 0, 0), At(2, 16, 23, 30, 0),
                                  NULL, NULL)>> }
  /\ StoreStart

\* One session calling the handlers and the repair one after the other;
\* clock-in is called until the table has given out MaxRecords ids.
NextSession ==
  \/ Tick
  \/ \E type \in {"clockIn", "clockOut"} :
       /\ type = "clockIn" => nextId <= MaxRecords
       /\ HandleAttendanceRead(1, type)
  \/ HandleAttendanceCheck(1)
  \/ HandleAttendanceWrite(1)
  \/ \E type \in {"breakStart", "breakEnd"} : HandleBreakRead(1, type)
  \/ HandleBreakCheck(1)
  \/ HandleBreakWrite(1)
  \/ FixDataRead(1)
  \/ FixDataDelete(1)

SpecSession == InitSession /\ [][NextSession]_vars

\* Two sessions clocking in and out; a session starts at most MaxCalls
\* calls.
NextSessions ==
  \/ Tick
  \/ \E s \in Sessions :
       \/ \E type \in {"clockIn", "clockOut"} : sessions[s].calls < MaxCalls /\ HandleAttendanceRead(s, type)
       \/ HandleAttendanceCheck(s)
       \/ HandleAttendanceWrite(s)

SpecSessions == InitStore /\ [][NextSessions]_vars

\* Two sessions on the page: a handler runs when its button is enabled; a
\* session starts at most MaxCalls calls.
NextPage ==
  \/ Tick
  \/ \E s \in Sessions :
       \/ \E type \in {"clockIn", "clockOut"} : sessions[s].calls < MaxCalls /\ ClickAttendance(s, type)
       \/ HandleAttendanceCheck(s)
       \/ HandleAttendanceWrite(s)
       \/ \E type \in {"breakStart", "breakEnd"} : sessions[s].calls < MaxCalls /\ ClickBreak(s, type)
       \/ HandleBreakCheck(s)
       \/ HandleBreakWrite(s)
       \/ sessions[s].calls < MaxCalls /\ Reload(s)

SpecPage == InitStore /\ [][NextPage]_vars

\* ---------------------------------------------------------------- formatter
CallFormatMinutesToTime ==
  /\ pc = "format"
  /\ formattedTime' = formatMinutesToTime(minutesToFormat)
  /\ pc' = "formatted"
  /\ UNCHANGED <<storeVars, repeatVars, inputs, currentTime, totalWage, adjustedEndTime, adjustedBreakStart,
                 adjustedBreakEnd, slots, finalWage, durationVars, validateVars,
                 hookVars, minutesToFormat, parsedMinutes>>

CallGetMinutesFromHHMM ==
  /\ pc = "formatted"
  /\ parsedMinutes' = getMinutesFromHHMM(formattedTime)
  /\ pc' = "parsed"
  /\ UNCHANGED <<storeVars, repeatVars, inputs, currentTime, totalWage, adjustedEndTime, adjustedBreakStart,
                 adjustedBreakEnd, slots, finalWage, durationVars, validateVars,
                 hookVars, minutesToFormat, formattedTime>>

\* Minute counts handed to the formatter: every count up to MaxMinutes and
\* counts around 10, 100 and 160 hours and at 31 days.
FormatInputs ==
  0..MaxMinutes \cup {599, 600, 601, 5999, 6000, 6001, MAX_MONTHLY_MINUTES, 44640}

InitFormat ==
  /\ minutesToFormat \in FormatInputs
  /\ formattedTime = Unset
  /\ parsedMinutes = NULL
  /\ pc = "format"
  /\ CalculatorsIdle
  /\ RecordsIdle

NextFormat == CallFormatMinutesToTime \/ CallGetMinutesFromHHMM

SpecFormat == InitFormat /\ [][NextFormat]_vars

\* ------------------------------------------------ claims on the wage engine
\* Rate of an hour of day as the tier table states it.
TierRate(hour) ==
  IF hour < 3 THEN 2000 ELSE IF hour >= 22 THEN 1875 ELSE 1500

RECURSIVE TierPay(_, _)
\* Pay of [a, b) in yen * ticks / hour, every hour of day at its tier rate.
TierPay(a, b) ==
  IF a >= b THEN 0
  ELSE LET e == Min(b, (a \div TicksPerHour + 1) * TicksPerHour)
       IN (e - a) * TierRate(getHours(a)) + TierPay(e, b)

\* The interval the claims call priced: the contiguous slots walked.
SlotsCover(a, b) ==
  /\ Len(slots) >= 1
  /\ slots[1].from = a
  /\ slots[Len(slots)].to = b
  /\ \A i \in 1..Len(slots) : slots[i].from < slots[i].to
  /\ \A i \in 1..(Len(slots) - 1) : slots[i].to = slots[i + 1].from

\* C1: with clockIn < clockOut and no break the wage is the rounded sum, over
\* the interval, of elapsed hours times the tier rate of the hour of day
\* (0-2: 2000, 22-23: 1875, 3-21: 1500).
C1TierPayNoBreak ==
  (pc = "done" /\ clockIn < clockOut /\ breakStart = NULL /\ breakEnd = NULL)
    => finalWage = MathRound(TierPay(clockIn, clockOut))

\* C2: with a break [breakStart, breakEnd) inside the worked interval the wage
\* is the rounded pay of [clockIn, breakStart) plus [breakEnd, clockOut), each
\* part at its own tier rate, whatever the day or month of clock-in.
C2BreakRemovedExactly ==
  (/\ pc = "done" /\ breakStart # NULL /\ breakEnd # NULL
   /\ clockIn < clockOut /\ breakStart < breakEnd
   /\ clockIn <= breakStart /\ breakEnd <= clockOut)
    => finalWage = MathRound(TierPay(clockIn, breakStart) + TierPay(breakEnd, clockOut))

\* C3: the priced interval is [clockIn, clockOut + 1 day) when
\* clockOut <= clockIn (empty when that is still not after clockIn) and
\* exactly [clockIn, clockOut) when clockOut > clockIn, whatever the hours of
\* day of the two instants and however many days the interval spans.
C3InstantComparisonOnly ==
  pc = "done" =>
    LET end == IF clockOut <= clockIn THEN clockOut + TicksPerDay ELSE clockOut
    IN IF end <= clockIn THEN slots = <<>> ELSE SlotsCover(clockIn, end)

\* A shift of more than a day whose end hour is earlier than its start hour
\* has been priced.
C3Witness ==
  /\ pc = "done"
  /\ clockOut > clockIn + TicksPerDay
  /\ getHours(clockOut) < getHours(clockIn)
  /\ SlotsCover(clockIn, clockOut)

\* C4 as stated: whenever clockOut is strictly earlier than clockIn the wage
\* is 0.
C4InvertedIsZero ==
  (pc = "done" /\ clockOut < clockIn) => finalWage = 0

\* C4 amended: the wage is 0, with nothing priced, whenever clockOut + 1 day
\* is not after clockIn; a clockOut earlier than clockIn by less than a day
\* is priced as the overnight shift [clockIn, clockOut + 1 day).
C4InvertedByADayIsZero ==
  /\ (pc = "done" /\ clockOut + TicksPerDay <= clockIn)
       => (finalWage = 0 /\ slots = <<>>)
  /\ (pc = "done" /\ clockOut < clockIn /\ clockOut + TicksPerDay > clockIn)
       => SlotsCover(clockIn, clockOut + TicksPerDay)

\* A record inverted by a day or more, with a break, has been given wage 0.
C4Witness ==
  /\ pc = "done"
  /\ clockOut + TicksPerDay <= clockIn
  /\ breakStart # NULL /\ breakEnd # NULL
  /\ finalWage = 0

\* C5: the result is an integer >= 0: the total rounded to the nearest unit
\* with halves rounded up, and 0 when the total is negative.
C5RoundedNonNegative ==
  pc = "done" =>
    /\ finalWage \in Nat
    /\ totalWage < 0 => finalWage = 0
    /\ totalWage >= 0 =>
         /\ 2 * TicksPerHour * finalWage - TicksPerHour <= 2 * totalWage
         /\ 2 * totalWage < 2 * TicksPerHour * finalWage + TicksPerHour

\* A negative total of at least half a unit has been clamped to 0.
C5Witness ==
  /\ pc = "done"
  /\ 2 * totalWage < 0 - TicksPerHour
  /\ finalWage = 0

\* ------------------------------------------ claims on the duration calculators
\* A well-formed "HH:mm": at least two hour digits, a colon, two minute digits
\* below 60.
IsHHMM(str) ==
  /\ Len(str) >= 5
  /\ str[Len(str) - 2] = ":"
  /\ IsDigits(SubSeq(str, 1, Len(str) - 3))
  /\ IsDigits(SubSeq(str, Len(str) - 1, Len(str)))
  /\ DigitsValue(SubSeq(str, Len(str) - 1, Len(str))) < 60

\* m is the number of ticks d rounded up to whole minutes.
IsCeilMinutes(m, d) == (m - 1) * TicksPerMinute < d /\ d <= m * TicksPerMinute

\* m is the number of ticks d rounded down to whole minutes.
IsFloorMinutes(m, d) == m * TicksPerMinute <= d /\ d < (m + 1) * TicksPerMinute

\* C6: for clockIn < clockOut calculateWorkTime is the elapsed time rounded
\* up to whole minutes, formatted HH:mm, hence at least "00:01".
C6WorkTimeRoundsUp ==
  (workTime # Unset /\ clockIn < clockOut) =>
    /\ IsHHMM(workTime)
    /\ getMinutesFromHHMM(workTime) >= 1
    /\ IsCeilMinutes(getMinutesFromHHMM(workTime), clockOut - clockIn)

\* Less than a minute of work has been reported as "00:01".
C6Witness ==
  /\ clockIn < clockOut
  /\ clockOut - clockIn < TicksPerMinute
  /\ workTime = <<"0", "0", ":", "0", "1">>

\* C7: for clockOut <= clockIn every duration calculator returns exactly
\* "00:00", whatever the period and the break.
C7InvertedDurationsAreZero ==
  clockOut <= clockIn =>
    /\ workTime \in {Unset, ZeroTime}
    /\ periodTime \in {Unset, ZeroTime}
    /\ nextPeriodTime \in {Unset, ZeroTime}
    /\ actualTime \in {Unset, ZeroTime}

\* A record inverted by less than a minute, with a break, has been given
\* "00:00" by all three calculators.
C7Witness ==
  /\ clockOut < clockIn
  /\ clockIn - clockOut < TicksPerMinute
  /\ breakStart # NULL /\ breakEnd # NULL
  /\ workTime = ZeroTime /\ periodTime = ZeroTime /\ actualTime = ZeroTime

\* C8: calculateWorkTimeForPeriod is the whole minutes, rounded down, of the
\* intersection of [clockIn, clockOut) with [periodStart, 00:00 of the day
\* after periodEnd), and "00:00" when the intersection is empty.
C8PeriodIntersectionRoundsDown ==
  periodTime # Unset =>
    LET endExclusive == (DayIndex(periodEnd) + 1) * TicksPerDay
        lo == Max(clockIn, periodStart)
        hi == Min(clockOut, endExclusive)
    IN IF hi <= lo THEN periodTime = ZeroTime
       ELSE /\ IsHHMM(periodTime)
            /\ IsFloorMinutes(getMinutesFromHHMM(periodTime), hi - lo)

\* An interval covering the whole 31-day period has been reported as "744:00".
C8Witness ==
  /\ clockIn < periodStart
  /\ clockOut > periodEnd + TicksPerDay
  /\ periodTime = <<"7", "4", "4", ":", "0", "0">>

\* The interval lies inside the union of the period and the following one,
\* and all three durations have been computed.
C9Split ==
  /\ workTime # Unset /\ periodTime # Unset /\ nextPeriodTime # Unset
  /\ clockIn <= clockOut
  /\ periodStart <= clockIn
  /\ clockOut <= (DayIndex(NextPeriodEnd) + 1) * TicksPerDay

C9Sum ==
  getMinutesFromHHMM(periodTime) + getMinutesFromHHMM(nextPeriodTime)
    = getMinutesFromHHMM(workTime)

\* C9 as stated: the minutes of the two adjacent periods add up to the minutes
\* of calculateWorkTime, whether or not clockIn and clockOut fall on whole
\* minutes.
C9SplitAdditivity == C9Split => C9Sum

\* C9 amended: the minutes of the two adjacent periods add up to the minutes
\* of calculateWorkTime when clockIn and clockOut fall on whole minutes.
C9SplitAdditivityWholeMinutes ==
  (C9Split /\ clockIn % TicksPerMinute = 0 /\ clockOut % TicksPerMinute = 0) => C9Sum

\* A whole-minute interval across the period boundary has been apportioned,
\* with a part in each period.
C9Witness ==
  /\ C9Split
  /\ clockIn % TicksPerMinute = 0 /\ clockOut % TicksPerMinute = 0
  /\ clockIn < NextPeriodStart /\ NextPeriodStart < clockOut
  /\ periodTime # ZeroTime /\ nextPeriodTime # ZeroTime

OpenRecords(recs) == {i \in DOMAIN recs : recs[i].clock_out \in {NULL, EmptyString}}

\* C11: a list with more than one record whose clock_out is null or empty is
\* rejected, whatever else it holds and in whatever order.
C11MoreThanOneOpenIsInvalid ==
  (pc = "validated" /\ Cardinality(OpenRecords(attendance)) > 1) => valid = FALSE

\* Two open records on different days, not neighbours in the list, one of
\* them with an empty clock_out, have been rejected.
C11Witness ==
  /\ pc = "validated"
  /\ Len(attendance) = 3
  /\ OpenRecords(attendance) = {1, 3}
  /\ attendance[1].clock_out = NULL /\ attendance[3].clock_out = EmptyString
  /\ attendance[1].clock_in > attendance[3].clock_in
  /\ valid = FALSE

\* Neighbours in clock_in order that are not exact duplicates of each other.
Neighbours(sorted) ==
  {i \in 2..Len(sorted) :
     ~(/\ sorted[i - 1].clock_in = sorted[i].clock_in
       /\ sorted[i - 1].clock_out = sorted[i].clock_out)}

WellFormedAlternating(recs) ==
  LET sorted == sortByClockIn(recs) IN
  /\ \A i \in DOMAIN sorted :
       \/ i = Len(sorted) /\ sorted[i].clock_out \in {NULL, EmptyString}
       \/ /\ sorted[i].clock_out \notin {NULL, EmptyString}
          /\ sorted[i].clock_in <= sorted[i].clock_out
          /\ DayIndex(sorted[i].clock_in) = DayIndex(sorted[i].clock_out)
  /\ \A i \in 2..Len(sorted) :
       DayIndex(sorted[i - 1].clock_in) < DayIndex(sorted[i].clock_in)

WithCopy(recs, i, pos) ==
  SubSeq(recs, 1, pos) \o <<recs[i]>> \o SubSeq(recs, pos + 1, Len(recs))

\* C14: a further copy of a record of the list, inserted anywhere, leaves the
\* verdict of the validator as it was.
C14DuplicatesAreSkipped ==
  pc = "validated" =>
    \A i \in DOMAIN attendance : \A pos \in 0..Len(attendance) :
      validateRecords(WithCopy(attendance, i, pos)) = valid

\* ---------------------------------------------- claims on the monthly totals
\* Minutes of the closed rows that calculateWorkTimeForPeriod attributes to
\* the month (first day 00:00 to last day 00:00, as the aggregator builds it).
RECURSIVE PeriodSum(_, _)
PeriodSum(rows, month) ==
  IF rows = <<>> THEN 0
  ELSE PeriodSum(Tail(rows), month)
       + (IF Head(rows).clock_out = NULL THEN 0
          ELSE getMinutesFromHHMM(
                 calculateWorkTimeForPeriod(Head(rows).clock_in, Head(rows).clock_out,
                                            newDate(month, 1), newDate(month + 1, 0))))

\* C15: the monthly total the hook holds for the reporting month is
\* min(9600, sum over the closed records of their minutes inside that month).
C15MonthlyTotalOfPeriod ==
  pc = "shown" =>
    monthlyTotal.hours * MINUTES_IN_HOUR + monthlyTotal.minutes
      = Min(MAX_MONTHLY_MINUTES, PeriodSum(attendanceData, getMonth(now)))

\* C16: the total displayed for the viewed month is at most "160:00".
C16DisplayedTotalIsCapped ==
  pc = "shown" => getMinutesFromHHMM(formattedMonthlyTotal) <= MAX_MONTHLY_MINUTES

\* ---------------------------------------------------- claims on the formatter
\* C17: formatMinutesToTime(n) is floor(n / 60) in decimal, zero-padded to two
\* digits and never truncated, a colon, and n mod 60 as exactly two digits;
\* getMinutesFromHHMM gives n back.
C17FormatRoundTrip ==
  pc \in {"formatted", "parsed"} =>
    LET len == Len(formattedTime)
        hourPart == SubSeq(formattedTime, 1, len - 3)
        minutePart == SubSeq(formattedTime, len - 1, len)
    IN /\ len >= 5
       /\ formattedTime[len - 2] = ":"
       /\ IsDigits(hourPart)
       /\ DigitsValue(hourPart) = minutesToFormat \div 60
       /\ Len(hourPart) = 2 \/ hourPart[1] # "0"
       /\ IsDigits(minutePart)
       /\ DigitsValue(minutePart) = minutesToFormat % 60
       /\ pc = "parsed" => parsedMinutes = minutesToFormat

\* 44640 minutes were rendered as "744:00" and parsed back.
C17Witness ==
  /\ pc = "parsed"
  /\ minutesToFormat = 44640
  /\ formattedTime = <<"7", "4", "4", ":", "0", "0">>
  /\ parsedMinutes = 44640

NextBoundary(t) ==
  IF getHours(t) < 3 THEN setHours(t, 3)
  ELSE IF getHours(t) < 22 THEN setHours(t, 22)
  ELSE (DayIndex(t) + 1) * TicksPerDay

\* The instants 00:00, 03:00 and 22:00 of the days from a's to b's.
Boundaries(a, b) ==
  {d * TicksPerDay + h * TicksPerHour : d \in DayIndex(a)..DayIndex(b), h \in {0, 3, 22}}

\* C19: for every slot the walk prices, the boundary found from its start is
\* the earliest of 03:00, 22:00 and next-day 00:00 after it, and none of these
\* instants lies strictly inside the slot.
C19NextIsEarliestBoundary ==
  \A i \in DOMAIN slots :
    /\ slots[i].next = NextBoundary(slots[i].from)
    /\ \A b \in Boundaries(slots[i].from, slots[i].to) :
         ~(slots[i].from < b /\ b < slots[i].to)

\* C20: the walk terminates: every iteration moves currentTime forward to the
\* end of the slot it priced, the loop is left as soon as currentTime has
\* reached adjustedEndTime, the result is eventually produced, and the slots
\* then cover [clockIn, adjustedEndTime) contiguously, once.
C20WalkTerminates ==
  /\ [][(pc = "loop" /\ pc' = "loop") =>
          /\ currentTime < adjustedEndTime
          /\ currentTime' > currentTime
          /\ Len(slots') = Len(slots) + 1
          /\ slots'[Len(slots')].from = currentTime
          /\ slots'[Len(slots')].to = currentTime']_vars
  /\ [][(pc = "loop" /\ currentTime >= adjustedEndTime) => pc' = "done"]_vars
  /\ [](pc = "done" =>
          /\ currentTime >= adjustedEndTime
          /\ IF adjustedEndTime <= clockIn THEN slots = <<>>
             ELSE SlotsCover(clockIn, adjustedEndTime))
  /\ <>(pc = "done")

\* A walk over three boundaries or more has returned.
C20Witness ==
  /\ pc = "done"
  /\ Len(slots) >= 4
  /\ SlotsCover(clockIn, adjustedEndTime)

\* C21: with no break every slot is priced on its exact length, slots shorter
\* than a minute included: a slot of s seconds at rate r adds r * s / 3600.
C21SlotPricedOnExactLength ==
  (adjustedBreakStart = NULL /\ adjustedBreakEnd = NULL) =>
    \A i \in DOMAIN slots : slots[i].work = slots[i].to - slots[i].from

\* ---------------------------------------------------- claims on the breaks
\* C22: the break deducted is ceil(breakEnd - breakStart) in minutes whenever
\* breakEnd > breakStart, at least one minute for any positive break, and 0
\* only when breakEnd <= breakStart.
C22BreakRoundsUp ==
  (actualTime # Unset /\ breakStart # NULL /\ breakEnd # NULL
     /\ clockOut - clockIn >= TicksPerMinute) =>
    LET gross == MathCeil(clockOut - clockIn, TicksPerMinute)
        pause == IF breakEnd > breakStart
                 THEN MathCeil(breakEnd - breakStart, TicksPerMinute)
                 ELSE 0
    IN getMinutesFromHHMM(actualTime) = Max(0, gross - pause)

C23HalfOpenBreakIsNoBreak ==
  /\ (actualTime # Unset /\ previousWage = NULL
        /\ (breakStart = NULL) # (breakEnd = NULL))
       => actualTime = calculateActualWorkTime(clockIn, clockOut, NULL, NULL)
  /\ (pc = "done" /\ previousWage # NULL
        /\ (previousBreakStart = NULL) # (previousBreakEnd = NULL))
       => finalWage = previousWage

\* A shift with a break end but no break start has been priced twice, the
\* second time without break, and its net duration has been computed.
C23Witness ==
  /\ pc = "done" /\ previousWage # NULL
  /\ previousBreakStart = NULL /\ previousBreakEnd # NULL
  /\ previousBreakEnd > clockIn /\ previousBreakEnd < clockOut
  /\ finalWage = previousWage /\ finalWage > 0
  /\ actualTime # Unset

\* C25: a break never raises the pay: the wage with the break is at most the
\* wage of the same shift without it, and no slot has a negative break time
\* subtracted.
C25BreakNeverIncreasesPay ==
  /\ \A i \in DOMAIN slots : slots[i].pause >= 0
  /\ (pc = "done" /\ previousWage # NULL) => previousWage <= finalWage


\* ----------------------------------------------- claims on the attendance store
\* The rows of the table whose clock_out is null.
OpenRecordsOfStore == {i \in DOMAIN attendance : attendance[i].clock_out = NULL}

C27SingleSessionKeepsOneOpen ==
  /\ Cardinality(OpenRecordsOfStore) <= 1
  /\ \A i \in DOMAIN attendance :
       attendance[i].clock_out # NULL => attendance[i].clock_out >= attendance[i].clock_in
  /\ unclockedOutCount(attendance) <= 1

\* The same three properties while no row of the table starts later than
\* the current time.
C27KeepsOneOpenWithoutLaterRows ==
  (\A i \in DOMAIN attendance : attendance[i].clock_in <= now)
    => C27SingleSessionKeepsOneOpen


\* C28: with two sessions whose clock-in calls interleave (each reads the
\* latest record, then inserts), the table never holds two records with
\* clock_out null.
C28TwoSessionsKeepOneOpen ==
  ~ \E i, j \in DOMAIN attendance :
      /\ i # j
      /\ attendance[i].clock_out = NULL
      /\ attendance[j].clock_out = NULL


\* The requests the handlers are to refuse, on what the call has read:
\* clock-in while the record is open or after today's shift was completed,
\* clock-out with no open record or earlier than clock-in, break start with
\* no open record or with a break already recorded, break end with no
\* started break or with the break already ended.
C29Refused(session) ==
  LET latestRecord == session.latestRecord
  IN \/ /\ session.pc = "attendanceRead"
        /\ session.type = "clockIn"
        /\ latestRecord # NoRecord
        /\ \/ latestRecord.clock_out = NULL
           \/ toISODate(latestRecord.clock_in) = toISODate(session.now)
     \/ /\ session.pc = "attendanceRead"
        /\ session.type = "clockOut"
        /\ \/ latestRecord = NoRecord
           \/ latestRecord.clock_out # NULL
           \/ latestRecord.clock_in > session.now
     \/ /\ session.pc = "breakRead"
        /\ session.type = "breakStart"
        /\ session.fetchError \/ latestRecord.break_start # NULL
     \/ /\ session.pc = "breakRead"
        /\ session.type = "breakEnd"
        /\ \/ session.fetchError
           \/ latestRecord.break_start = NULL
           \/ latestRecord.break_end # NULL

C30Kept(id) == {j \in DOMAIN attendance' : attendance'[j].id = id}

\* Break start and break end are written in this order, each at most once:
\* break_start only on an open row without break_start, break_end only on a
\* row with break_start and without break_end, and never earlier than
\* break_start.
C30BreakWritesInOrder ==
  [][\A i \in DOMAIN attendance : \A j \in C30Kept(attendance[i].id) :
       /\ attendance'[j].break_start # attendance[i].break_start =>
            /\ attendance[i].clock_out = NULL
            /\ attendance[i].break_start = NULL
       /\ attendance'[j].break_end # attendance[i].break_end =>
            /\ attendance[i].break_start # NULL
            /\ attendance[i].break_end = NULL
            /\ attendance'[j].break_end >= attendance[i].break_start
    ]_vars

\* No closed row has break_start set with break_end null.
C30ClosedRecordHasNoOpenBreak ==
  \A i \in DOMAIN attendance :
    attendance[i].clock_out # NULL /\ attendance[i].break_start # NULL
      => attendance[i].break_end # NULL

\* C30: break events on a record follow the order break start, break end,
\* at most once, and after any sequence of calls no closed record has a
\* break that was started and not ended.
C30BreakEventsInOrder == C30BreakWritesInOrder /\ []C30ClosedRecordHasNoOpenBreak

====
